---- MODULE Spec2Model ----
(***************************************************************************)
(* gb: HTTP benchmarking tool (src/gb.go).                                 *)
(*                                                                         *)
(* The model is the goroutine system main() sets up: N bench workers, the  *)
(* rate ticker, the ramp-up generator, the error reporter, the live        *)
(* updater and main itself, communicating over the channels done, result,  *)
(* errors, rampch, livech and tickch.  Every goroutine is a small program  *)
(* counter machine; an action is one blocking operation of a goroutine     *)
(* together with the local code that follows it up to the next blocking    *)
(* operation.  Unbuffered channel operations are rendezvous of two         *)
(* goroutines.  Wall-clock time is abstract: a ticker may fire whenever    *)
(* its receiver is waiting for it, and a clock comparison is a free        *)
(* boolean.  The HTTP client is the environment: client.Do and Body.Read   *)
(* return any outcome.  A panic in any goroutine ends the process.         *)
(* What the two reporters only print (errorReporter's history,             *)
(* liveUpdates' sum and clients) is not part of the state.  The goroutines *)
(* are followed to their end; main's return does not cut them short.       *)
(* The order of main's timestamps is kept by a clock that counts main's    *)
(* statements (now, t1, delta, tlast).                                     *)
(*                                                                         *)
(* Spec and FairSpec are the running system.  The pure parts of the final  *)
(* report have specifications of their own over the same variables, each   *)
(* starting from a state main can be in when it calls them: MergeSpec      *)
(* (collectStats over any hand-off stats in any order), HistSpec (the      *)
(* bucket loop of reportHistogram) and ScaleSpec (the unit scaling loops   *)
(* of reportSize, reportThroughput and reportBandwidth).                   *)
(***************************************************************************)
EXTENDS Integers, Sequences, FiniteSets, TLC

\* ------------------------------------------------------------------ bounds
MaxRequests == 1        \* requests dispatched by all workers together
MaxRampTicks == 3       \* 100 ms ticks the ramp-up generator may consume
MaxCount == 1           \* collectStats alone: counts handed in per kind
MaxMs == 4              \* reportHistogram alone: the largest bucket key
MaxDigits == 7          \* unit scaling alone: digits of m in the unit's base

\* ------------------------------------------------------- program constants
RampTickMs == 100       \* d := 100 * time.Millisecond
LiveCap == 1000         \* if size > 1000 { size = 1000 }
Int64Digits == 7        \* n int64: n < 2^63 = 8 * 1024^6, 7 digits base 1024

Codes == {200, 500}                 \* resp.StatusCode
Buckets == {0, 1}                   \* milisec
\* the responses the server gives: status, body length, latency
Responses ==
    {[code |-> 200, bytes |-> 1, ms |-> 0],
     [code |-> 500, bytes |-> 0, ms |-> 1]}
Parallels == {1, 2}                 \* -parallel
Rampups == {0, 50, 100, 200}        \* -rampup, in ms
Rates == {0, 10}                    \* -rate

VARIABLES
    f,          \* flags: parallel, rampup (ms), rate, live
    done,       \* done channel closed
    wpc,        \* bench: position of each worker
    s,          \* bench: s, the worker's stats
    live,       \* bench: live, the worker's livestats since the last snapshot
    resp,       \* bench: what client.Do / Body.Read returned last
    rampch,     \* "open" | "closed"
    rgpc,       \* rampupGenerator: position
    rn,         \* rampupGenerator: n
    ri,         \* rampupGenerator: i
    groupCnt,   \* rampupGenerator: groupCnt
    rticks,     \* rampupGenerator: receives from ticker.C so far
    tickch,     \* "nil" | "open" | "closed"
    rtpc,       \* rateTicker goroutine: position
    ticks,      \* values delivered on tickch so far
    errors,     \* "open" | "closed"
    erpc,       \* errorReporter: position
    livech,     \* buffered values of livech
    livest,     \* "nil" | "open" | "closed"
    lupc,       \* liveUpdates: position
    mainpc,     \* main: position
    total,      \* collectStats: total
    got,        \* collectStats: the *stats received, by owner, in order
    handed,     \* the stats each worker put on result
    inflight,   \* the workers that were inside client.Do when done was closed
                \* and have not handed off their stats yet
    sent,       \* per worker, the sum of the snapshots it put on livech
    now,        \* the clock, counted in statements of main
    t1,         \* main: t1
    delta,      \* main: delta
    tlast,      \* the clock at the latest s := <-result of collectStats
    rh,         \* reportHistogram: its locals and the annotations printed
    sc,         \* reportSize / reportThroughput / reportBandwidth: locals
    panicked    \* "none", or the goroutine whose panic ended the process

vars == <<f, done, wpc, s, live, resp, rampch, rgpc, rn, ri, groupCnt, rticks,
          tickch, rtpc, ticks, errors, erpc, livech, livest, lupc, mainpc,
          total, got, handed, inflight, sent, now, t1, delta, tlast, rh, sc,
          panicked>>

\* ----------------------------------------------------------------- helpers
Workers == 1..f.parallel

RECURSIVE SumOver(_, _)
SumOver(m, D) ==
    IF D = {} THEN 0
    ELSE LET k == CHOOSE x \in D : TRUE IN m[k] + SumOver(m, D \ {k})

Sum(m) == SumOver(m, DOMAIN m)

newStats ==
    [req |-> 0, err |-> 0, rerr |-> 0, bytes |-> 0,
     code |-> [c \in Codes |-> 0], hist |-> [m \in Buckets |-> 0]]

newLive == [req |-> 0, bytes |-> 0]

Min(a, b) == IF a < b THEN a ELSE b

Running == panicked = "none"

\* the first blocking point of a loop iteration
LoopTop == IF tickch = "nil" THEN "check" ELSE "tick"

TotalReq == SumOver([w \in Workers |-> s[w].req], Workers)

\* -------------------------------------------------------------------- Init
\* reportHistogram lines 423-425: sum, next; k counts the buckets printed and
\* ann is the annotation printed with each of them (0 for none)
rhIdle == [k |-> 0, sum |-> 0, next |-> 0, ann |-> << >>]

\* reportSize lines 337-340 before the call: no function, no value
scIdle == [fn |-> "none", m |-> << >>, neg |-> FALSE, i |-> 0, pc |-> "idle"]

\* lines 597-644: the state of main at line 644, all goroutines started; the
\* go statements of lines 633-636 ran at clock 1 .. parallel, t1 is taken
\* after them
Init ==
    /\ f \in [parallel : Parallels, rampup : Rampups, rate : Rates,
              live : BOOLEAN]
    /\ done = FALSE
    /\ wpc = [w \in Workers |-> "ramp"]
    /\ s = [w \in Workers |-> newStats]
    /\ live = [w \in Workers |-> newLive]
    /\ resp = [w \in Workers |-> "none"]
    /\ rampch = "open"
    /\ rgpc = "start"
    /\ rn = f.parallel
    /\ ri = 0
    /\ groupCnt = 0
    /\ rticks = 0
    /\ tickch = IF f.rate <= 0 THEN "nil" ELSE "open"
    /\ rtpc = IF f.rate <= 0 THEN "none" ELSE "select"
    /\ ticks = 0
    /\ errors = "open"
    /\ erpc = "select"
    /\ livech = << >>
    /\ livest = IF f.live THEN "open" ELSE "nil"
    /\ lupc = IF f.live THEN "select" ELSE "none"
    /\ mainpc = "select"
    /\ total = newStats
    /\ got = << >>
    /\ handed = [w \in Workers |-> newStats]
    /\ inflight = {}
    /\ sent = [w \in Workers |-> newLive]
    /\ now = f.parallel + 1
    /\ t1 = now
    /\ delta = 0
    /\ tlast = 0
    /\ rh = rhIdle
    /\ sc = scIdle
    /\ panicked = "none"

rampVars == <<rampch, rgpc, rn, ri, groupCnt, rticks>>
rateVars == <<tickch, rtpc, ticks>>
errVars == <<errors, erpc>>
liveVars == <<livech, livest, lupc, sent>>
clockVars == <<now, t1, delta, tlast>>
reportVars == <<rh, sc>>
mainVars == <<mainpc, total, got, handed, inflight, clockVars, reportVars>>

\* ------------------------------------------------------------------- bench
\* lines 104-114: s.hist[milisec]++, then the live snapshot decision.  st and
\* lv are the worker's stats and livestats after the request; due is
\* t2.Sub(livets) >= 500ms.
Finish(w, st, lv, ms, due) ==
    /\ s' = [s EXCEPT ![w] = [st EXCEPT !.hist[ms] = @ + 1]]
    /\ live' = [live EXCEPT ![w] = lv]
    /\ resp' = [resp EXCEPT ![w] = "none"]
    /\ wpc' = [wpc EXCEPT ![w] =
                 IF livest # "nil" /\ due THEN "livesend" ELSE LoopTop]

\* lines 58-63: <-rampch returns because the channel is closed
RampClosed(w) ==
    /\ Running
    /\ wpc[w] = "ramp"
    /\ rampch = "closed"
    /\ wpc' = [wpc EXCEPT ![w] = LoopTop]
    /\ UNCHANGED <<f, done, s, live, resp, rampch, rgpc, rn, ri, groupCnt,
                   rticks, rateVars, errVars, liveVars, mainVars, panicked>>

\* lines 71-80 after the wait for a tick, if any: case <-done leaves the
\* loop; default goes on to s.req++, live.req++ and calls client.Do.  st, lv and
\* pc are the worker's stats, livestats and position afterwards.
CheckStop(w) ==
    IF done
    THEN [st |-> s[w], lv |-> live[w], pc |-> "result"]
    ELSE [st |-> [s[w] EXCEPT !.req = @ + 1],
          lv |-> [live[w] EXCEPT !.req = @ + 1], pc |-> "do"]

\* a faulty TickClosed: no check of done after the receive from tickch
TickClosedDispatch(w) ==
    /\ Running
    /\ wpc[w] = "tick"
    /\ tickch = "closed"
    /\ TotalReq < MaxRequests
    /\ s' = [s EXCEPT ![w].req = @ + 1]
    /\ live' = [live EXCEPT ![w].req = @ + 1]
    /\ wpc' = [wpc EXCEPT ![w] = "do"]
    /\ UNCHANGED <<f, done, resp, rampVars, rateVars, errVars, liveVars,
                   mainVars, panicked>>

\* lines 67-80: <-tickch returns because the channel is closed, then the check
\* of done
TickClosed(w) ==
    /\ Running
    /\ wpc[w] = "tick"
    /\ tickch = "closed"
    /\ done \/ TotalReq < MaxRequests
    /\ s' = [s EXCEPT ![w] = CheckStop(w).st]
    /\ live' = [live EXCEPT ![w] = CheckStop(w).lv]
    /\ wpc' = [wpc EXCEPT ![w] = CheckStop(w).pc]
    /\ UNCHANGED <<f, done, resp, rampVars, rateVars, errVars, liveVars,
                   mainVars, panicked>>

\* lines 66-80 without a rate limit (tickch == nil): the check of done
NoTick(w) ==
    /\ Running
    /\ wpc[w] = "check"
    /\ done \/ TotalReq < MaxRequests
    /\ s' = [s EXCEPT ![w] = CheckStop(w).st]
    /\ live' = [live EXCEPT ![w] = CheckStop(w).lv]
    /\ wpc' = [wpc EXCEPT ![w] = CheckStop(w).pc]
    /\ UNCHANGED <<f, done, resp, rampVars, rateVars, errVars, liveVars,
                   mainVars, panicked>>

\* a faulty DoFail: a failed dispatch is counted and ends the loop
DoFailBreaks(w) ==
    /\ Running
    /\ wpc[w] = "do"
    /\ s' = [s EXCEPT ![w].err = @ + 1]
    /\ wpc' = [wpc EXCEPT ![w] = "result"]
    /\ UNCHANGED <<f, done, live, resp, rampVars, rateVars, errVars, liveVars,
                   mainVars, panicked>>

\* lines 80-82: client.Do returns an error
DoFail(w) ==
    /\ Running
    /\ wpc[w] = "do"
    /\ resp' = [resp EXCEPT ![w] = "err"]
    /\ wpc' = [wpc EXCEPT ![w] = "errsend"]
    /\ UNCHANGED <<f, done, s, live, rampVars, rateVars, errVars, liveVars,
                   mainVars, panicked>>

\* a faulty DoOk: the request is cancelled when done is closed, counted as a
\* connection error, and the worker leaves the loop
DoOkCancelled(w, c, n, ms, due) ==
    /\ Running
    /\ wpc[w] = "do"
    /\ IF done
       THEN /\ s' = [s EXCEPT ![w].err = @ + 1]
            /\ wpc' = [wpc EXCEPT ![w] = "result"]
            /\ UNCHANGED <<live, resp>>
       ELSE Finish(w, [s[w] EXCEPT !.code[c] = @ + 1, !.bytes = @ + n],
                   [live[w] EXCEPT !.bytes = @ + n], ms, due)
    /\ UNCHANGED <<f, done, rampVars, rateVars, errVars, liveVars, mainVars,
                   panicked>>

\* lines 80, 84-101: client.Do returns a response with status c, and the read
\* loop has read n bytes when Read returns io.EOF
DoOk(w, c, n, ms, due) ==
    /\ Running
    /\ wpc[w] = "do"
    /\ Finish(w, [s[w] EXCEPT !.code[c] = @ + 1, !.bytes = @ + n],
              [live[w] EXCEPT !.bytes = @ + n], ms, due)
    /\ UNCHANGED <<f, done, rampVars, rateVars, errVars, liveVars, mainVars,
                   panicked>>

\* lines 80, 84-97: client.Do returns a response with status c, and the read
\* loop has read n bytes when Read returns an error other than io.EOF
ReadFail(w, c, n) ==
    /\ Running
    /\ wpc[w] = "do"
    /\ s' = [s EXCEPT ![w] = [@ EXCEPT !.code[c] = @ + 1, !.bytes = @ + n]]
    /\ live' = [live EXCEPT ![w].bytes = @ + n]
    /\ resp' = [resp EXCEPT ![w] = "readerr"]
    /\ wpc' = [wpc EXCEPT ![w] = "errsend"]
    /\ UNCHANGED <<f, done, rampVars, rateVars, errVars, liveVars, mainVars,
                   panicked>>

\* a faulty ErrSend: a failed dispatch is counted as a read error
ErrSendAsRead(w, ms, due) ==
    /\ Running
    /\ wpc[w] = "errsend"
    /\ errors = "open"
    /\ erpc \in {"select", "drain"}
    /\ Finish(w, [s[w] EXCEPT !.rerr = @ + 1], live[w], ms, due)
    /\ UNCHANGED <<f, done, rampVars, rateVars, errVars, liveVars, mainVars,
                   panicked>>

\* lines 82-83 and 97-101 with errorReporter lines 186-187 and 200: the send
\* on errors meets a receive of the error reporter, in its select loop or in
\* its drain loop; then s.err++ or s.rerr++
ErrSend(w, ms, due) ==
    /\ Running
    /\ wpc[w] = "errsend"
    /\ errors = "open"
    /\ erpc \in {"select", "drain"}
    /\ Finish(w, IF resp[w] = "err" THEN [s[w] EXCEPT !.err = @ + 1]
                                    ELSE [s[w] EXCEPT !.rerr = @ + 1],
              live[w], ms, due)
    /\ UNCHANGED <<f, done, rampVars, rateVars, errVars, liveVars, mainVars,
                   panicked>>

\* a faulty LiveSend: the local counters are not reset after the send
LiveSendNoReset(w) ==
    /\ Running
    /\ wpc[w] = "livesend"
    /\ livest = "open"
    /\ Len(livech) < Min(f.parallel, LiveCap)
    /\ livech' = Append(livech, [id |-> w, req |-> live[w].req,
                                 bytes |-> live[w].bytes])
    /\ sent' = [sent EXCEPT ![w] = [req |-> @.req + live[w].req,
                                     bytes |-> @.bytes + live[w].bytes]]
    /\ wpc' = [wpc EXCEPT ![w] = LoopTop]
    /\ UNCHANGED <<f, done, s, live, resp, rampVars, rateVars, errVars,
                   livest, lupc, mainVars, panicked>>

\* lines 110-113: livech <- live, then the local counters are reset
LiveSend(w) ==
    /\ Running
    /\ wpc[w] = "livesend"
    /\ livest = "open"
    /\ Len(livech) < Min(f.parallel, LiveCap)
    /\ livech' = Append(livech, [id |-> w, req |-> live[w].req,
                                 bytes |-> live[w].bytes])
    /\ sent' = [sent EXCEPT ![w] = [req |-> @.req + live[w].req,
                                     bytes |-> @.bytes + live[w].bytes]]
    /\ live' = [live EXCEPT ![w] = newLive]
    /\ wpc' = [wpc EXCEPT ![w] = LoopTop]
    /\ UNCHANGED <<f, done, s, resp, rampVars, rateVars, errVars, livest,
                   lupc, mainVars, panicked>>

\* --------------------------------------------------------- rampupGenerator
\* Go's integer division by zero panics; a \div b is total/d and n/groups
\* for the non-negative operands that reach it
Groups(totalMs) == totalMs \div RampTickMs

\* lines 256-266: total == 0 closes rampch at once; otherwise groups and
\* groupCnt are computed, and groups == 0 panics on n / groups
RampStart ==
    /\ Running
    /\ rgpc = "start"
    /\ IF f.rampup = 0
       THEN /\ rampch' = "closed"
            /\ rgpc' = "exit"
            /\ UNCHANGED <<groupCnt, panicked>>
       ELSE IF Groups(f.rampup) = 0
       THEN /\ panicked' = "rampupGenerator"
            /\ UNCHANGED <<rampch, rgpc, groupCnt>>
       ELSE /\ groupCnt' = rn \div Groups(f.rampup)
            /\ rgpc' = IF rn \div Groups(f.rampup) > 0 THEN "send" ELSE "wait"
            /\ UNCHANGED <<rampch, panicked>>
    /\ UNCHANGED <<f, done, wpc, s, live, resp, rn, ri, rticks,
                   rateVars, errVars, liveVars, mainVars>>

\* lines 270-277 and 286 with bench lines 58-60: rampch <- struct{}{} meets
\* worker w's <-rampch; n--, and n == 0 leaves the loop and closes rampch
RampSend(w) ==
    /\ Running
    /\ rgpc = "send"
    /\ wpc[w] = "ramp"
    /\ rampch = "open"
    /\ wpc' = [wpc EXCEPT ![w] = LoopTop]
    /\ rn' = rn - 1
    /\ IF rn - 1 = 0
       THEN rampch' = "closed" /\ rgpc' = "exit" /\ ri' = ri
       ELSE /\ rampch' = rampch
            /\ ri' = ri + 1
            /\ rgpc' = IF ri + 1 < groupCnt THEN "send" ELSE "wait"
    /\ UNCHANGED <<f, done, s, live, resp, groupCnt, rticks, rateVars,
                   errVars, liveVars, mainVars, panicked>>

\* lines 279-280: case <-ticker.C, back to the top of the loop
RampTick ==
    /\ Running
    /\ rgpc = "wait"
    /\ rticks < MaxRampTicks
    /\ rticks' = rticks + 1
    /\ ri' = 0
    /\ rgpc' = IF groupCnt > 0 THEN "send" ELSE "wait"
    /\ UNCHANGED <<f, done, wpc, s, live, resp, rampch, rn, groupCnt,
                   rateVars, errVars, liveVars, mainVars, panicked>>

\* lines 281-286: case <-done: break LOOP, close(rampch)
RampDone ==
    /\ Running
    /\ rgpc = "wait"
    /\ done
    /\ rampch' = "closed"
    /\ rgpc' = "exit"
    /\ UNCHANGED <<f, done, wpc, s, live, resp, rn, ri, groupCnt, rticks,
                   rateVars, errVars, liveVars, mainVars, panicked>>

\* -------------------------------------------------------------- rateTicker
\* lines 301-302: case <-ticker.C, the goroutine goes on to send on tickch
RateTick ==
    /\ Running
    /\ rtpc = "select"
    /\ rtpc' = "send"
    /\ UNCHANGED <<f, done, wpc, s, live, resp, rampVars, tickch, ticks,
                   errVars, liveVars, mainVars, panicked>>

\* line 303 with bench lines 67-80: tickch <- struct{}{} meets worker w's
\* <-tickch, and the worker goes on to its check of done
TickSend(w) ==
    /\ Running
    /\ rtpc = "send"
    /\ wpc[w] = "tick"
    /\ tickch = "open"
    /\ done \/ TotalReq < MaxRequests
    /\ ticks' = ticks + 1
    /\ rtpc' = "select"
    /\ s' = [s EXCEPT ![w] = CheckStop(w).st]
    /\ live' = [live EXCEPT ![w] = CheckStop(w).lv]
    /\ wpc' = [wpc EXCEPT ![w] = CheckStop(w).pc]
    /\ UNCHANGED <<f, done, resp, rampVars, tickch, errVars, liveVars,
                   mainVars, panicked>>

\* lines 304-310: case <-done: break LOOP, ticker.Stop(), close(tickch)
RateDone ==
    /\ Running
    /\ rtpc = "select"
    /\ done
    /\ rtpc' = "exit"
    /\ tickch' = "closed"
    /\ UNCHANGED <<f, done, wpc, s, live, resp, rampVars, ticks, errVars,
                   liveVars, mainVars, panicked>>

\* lines 194-195: case <-done: break LOOP
ErrDone ==
    /\ Running
    /\ erpc = "select"
    /\ done
    /\ erpc' = "drain"
    /\ UNCHANGED <<f, done, wpc, s, live, resp, rampVars, rateVars, errors,
                   liveVars, mainVars, panicked>>

\* lines 186-187: case err = <-errors on the closed channel yields nil, and
\* err.Error() on the nil error panics.  The reporter comes to its select with
\* errors closed when it was not parked in it at close(done): not scheduled
\* yet, or in the ticker branch (lines 188-193); select then picks among the
\* two ready cases.
ErrRecvClosed ==
    /\ Running
    /\ erpc = "select"
    /\ errors = "closed"
    /\ panicked' = "errorReporter"
    /\ UNCHANGED <<f, done, wpc, s, live, resp, rampVars, rateVars, errVars,
                   liveVars, mainVars>>

\* lines 200-202: for range errors ends when the channel is closed
ErrDrained ==
    /\ Running
    /\ erpc = "drain"
    /\ errors = "closed"
    /\ erpc' = "exit"
    /\ UNCHANGED <<f, done, wpc, s, live, resp, rampVars, rateVars, errors,
                   liveVars, mainVars, panicked>>

\* ------------------------------------------------------------- liveUpdates
\* lines 221-224: case live = <-livech takes the oldest buffered snapshot
LiveRecv ==
    /\ Running
    /\ lupc = "select"
    /\ Len(livech) > 0
    /\ livech' = Tail(livech)
    /\ UNCHANGED <<f, done, wpc, s, live, resp, rampVars, rateVars, errVars,
                   livest, lupc, sent, mainVars, panicked>>

\* lines 245-246: case <-done: break LOOP
LiveDone ==
    /\ Running
    /\ lupc = "select"
    /\ done
    /\ lupc' = "drain"
    /\ UNCHANGED <<f, done, wpc, s, live, resp, rampVars, rateVars, errVars,
                   livech, livest, sent, mainVars, panicked>>

\* lines 251-252: for range livech discards a buffered snapshot
LiveDrain ==
    /\ Running
    /\ lupc = "drain"
    /\ Len(livech) > 0
    /\ livech' = Tail(livech)
    /\ UNCHANGED <<f, done, wpc, s, live, resp, rampVars, rateVars, errVars,
                   livest, lupc, sent, mainVars, panicked>>

\* lines 251-253: for range livech ends on the closed, empty channel
LiveDrained ==
    /\ Running
    /\ lupc = "drain"
    /\ livest = "closed"
    /\ Len(livech) = 0
    /\ lupc' = "exit"
    /\ UNCHANGED <<f, done, wpc, s, live, resp, rampVars, rateVars, errVars,
                   livech, livest, sent, mainVars, panicked>>

\* -------------------------------------------------------------------- main
\* a faulty Merge: total.code[k] = v in place of total.code[k] += v
MergeOverwrite(t, st) ==
    [req |-> t.req + st.req, err |-> t.err + st.err,
     rerr |-> t.rerr + st.rerr, bytes |-> t.bytes + st.bytes,
     code |-> [c \in Codes |-> IF st.code[c] > 0 THEN st.code[c]
                                ELSE t.code[c]],
     hist |-> [m \in Buckets |-> t.hist[m] + st.hist[m]]]

\* collectStats lines 321-330: one received *stats added to total
Merge(t, st) ==
    [req |-> t.req + st.req, err |-> t.err + st.err,
     rerr |-> t.rerr + st.rerr, bytes |-> t.bytes + st.bytes,
     code |-> [c \in Codes |-> t.code[c] + st.code[c]],
     hist |-> [m \in Buckets |-> t.hist[m] + st.hist[m]]]

\* lines 633-636: go bench(...) for i = 0 .. parallel-1, one statement each
LaunchTime(w) == w

\* a faulty Since: delta is taken after each s := <-result
SinceLastStats(at) == IF at = "receive" THEN now + 1 - t1 ELSE delta

\* line 658: delta := time.Since(t1), the statement after close(done); at is
\* the statement of main that has just run
Since(at) == IF at = "close" THEN now + 1 - t1 ELSE delta

\* lines 650-658: case <-timer.C, then close(done) and delta
Timer ==
    /\ Running
    /\ mainpc = "select"
    /\ done' = TRUE
    /\ mainpc' = "collect"
    /\ inflight' = {w \in Workers : wpc[w] = "do"}
    /\ now' = now + 1
    /\ delta' = Since("close")
    /\ UNCHANGED <<f, wpc, s, live, resp, rampVars, rateVars, errVars,
                   liveVars, total, got, handed, t1, tlast, reportVars,
                   panicked>>

\* lines 650-658: case <-intr, then close(done) and delta
Intr ==
    /\ Running
    /\ mainpc = "select"
    /\ mainpc' = "collect"
    /\ done' = TRUE
    /\ inflight' = {w \in Workers : wpc[w] = "do"}
    /\ now' = now + 1
    /\ delta' = Since("close")
    /\ UNCHANGED <<f, wpc, s, live, resp, rampVars, rateVars, errVars,
                   liveVars, total, got, handed, t1, tlast, reportVars,
                   panicked>>

\* a faulty Collect: the stats are sent from inside the loop, which goes on
CollectInLoop(w) ==
    /\ Running
    /\ mainpc = "collect"
    /\ wpc[w] = "result"
    /\ wpc' = [wpc EXCEPT ![w] = LoopTop]
    /\ handed' = [handed EXCEPT ![w] = s[w]]
    /\ total' = Merge(total, s[w])
    /\ got' = Append(got, w)
    /\ mainpc' = IF Len(got) + 1 < f.parallel THEN "collect" ELSE "report"
    /\ inflight' = inflight \ {w}
    /\ now' = now + 1
    /\ tlast' = now + 1
    /\ delta' = Since("receive")
    /\ UNCHANGED <<f, done, s, live, resp, rampVars, rateVars, errVars,
                   liveVars, t1, reportVars, panicked>>

\* bench line 117 with collectStats lines 319-331: worker w's result <- s
\* meets s := <-result; the worker returns, total takes the stats in
Collect(w) ==
    /\ Running
    /\ mainpc = "collect"
    /\ wpc[w] = "result"
    /\ wpc' = [wpc EXCEPT ![w] = "exit"]
    /\ handed' = [handed EXCEPT ![w] = s[w]]
    /\ total' = Merge(total, s[w])
    /\ got' = Append(got, w)
    /\ mainpc' = IF Len(got) + 1 < f.parallel THEN "collect" ELSE "report"
    /\ inflight' = inflight \ {w}
    /\ now' = now + 1
    /\ tlast' = now + 1
    /\ delta' = Since("receive")
    /\ UNCHANGED <<f, done, s, live, resp, rampVars, rateVars, errVars,
                   liveVars, t1, reportVars, panicked>>

\* line 660, reportStats lines 455-476: total.bytes/total.req is an int64
\* division, which panics when total.req is 0
Report ==
    /\ Running
    /\ mainpc = "report"
    /\ IF total.req = 0
       THEN panicked' = "main" /\ mainpc' = mainpc
       ELSE panicked' = panicked /\ mainpc' = "closeerrors"
    /\ UNCHANGED <<f, done, wpc, s, live, resp, rampVars, rateVars, errVars,
                   liveVars, total, got, handed, inflight, clockVars,
                   reportVars>>

\* a faulty CloseErrors: close(errors) right after close(done), before
\* collectStats
CloseErrorsEarly ==
    /\ Running
    /\ mainpc = "collect"
    /\ errors = "open"
    /\ errors' = "closed"
    /\ UNCHANGED <<f, done, wpc, s, live, resp, rampVars, rateVars, erpc,
                   liveVars, mainVars, panicked>>

\* line 662: close(errors)
CloseErrors ==
    /\ Running
    /\ mainpc = "closeerrors"
    /\ errors' = "closed"
    /\ mainpc' = IF livest # "nil" THEN "closelive" ELSE "exit"
    /\ UNCHANGED <<f, done, wpc, s, live, resp, rampVars, rateVars, erpc,
                   liveVars, total, got, handed, inflight, clockVars,
                   reportVars, panicked>>

\* lines 663-665: close(livech)
CloseLive ==
    /\ Running
    /\ mainpc = "closelive"
    /\ livest' = "closed"
    /\ mainpc' = "exit"
    /\ UNCHANGED <<f, done, wpc, s, live, resp, rampVars, rateVars, errVars,
                   livech, lupc, sent, total, got, handed, inflight,
                   clockVars, reportVars, panicked>>

\* ----------------------------------------------------------- specification
bench(w) ==
    \/ RampClosed(w)
    \/ TickClosed(w)
    \/ NoTick(w)
    \/ DoFail(w)
    \/ \E r \in Responses, due \in BOOLEAN :
          DoOk(w, r.code, r.bytes, r.ms, due)
    \/ \E r \in Responses : ReadFail(w, r.code, r.bytes)
    \/ \E ms \in Buckets, due \in BOOLEAN : ErrSend(w, ms, due)
    \/ LiveSend(w)

rampupGenerator ==
    RampStart \/ (\E w \in Workers : RampSend(w)) \/ RampTick \/ RampDone

rateTicker == RateTick \/ (\E w \in Workers : TickSend(w)) \/ RateDone

errorReporter == ErrDone \/ ErrRecvClosed \/ ErrDrained

liveUpdates ==
    LiveRecv \/ LiveDone \/ LiveDrain \/ LiveDrained

main ==
    \/ Timer \/ Intr \/ (\E w \in Workers : Collect(w))
    \/ Report \/ CloseErrors \/ CloseLive

Next ==
    \/ \E w \in Workers : bench(w)
    \/ rampupGenerator
    \/ rateTicker
    \/ errorReporter
    \/ liveUpdates
    \/ main

Spec == Init /\ [][Next]_vars

\* every goroutine that can run eventually runs; a select with several ready
\* cases picks one at random, so a case that stays ready is eventually taken
WorkerIds == UNION {1..n : n \in Parallels}

Fairness ==
    /\ \A w \in WorkerIds : WF_vars(w \in Workers /\ bench(w))
    /\ WF_vars(rampupGenerator) /\ WF_vars(RampDone)
    /\ WF_vars(rateTicker) /\ WF_vars(RateDone)
    /\ WF_vars(errorReporter) /\ WF_vars(ErrDone)
    /\ WF_vars(liveUpdates) /\ WF_vars(LiveDone)
    /\ WF_vars(main)

FairSpec == Spec /\ Fairness

\* ------------------------------------------------- collectStats on its own
\* -parallel for collectStats alone
MergeParallels == {2, 3}

\* what bench can hand off: a responses with status 200 and one byte each in
\* bucket 0, b responses with status 500 whose read failed and e failed
\* dispatches, both in bucket 1
WorkerStats ==
    {[req |-> a + b + e, err |-> e, rerr |-> b, bytes |-> a,
      code |-> [c \in Codes |-> IF c = 200 THEN a ELSE b],
      hist |-> [m \in Buckets |-> IF m = 0 THEN a ELSE b + e]] :
        a \in 0..MaxCount, b \in 0..MaxCount, e \in 0..MaxCount}

\* main at line 659, done closed at clock t1 + 1: every worker has left its
\* loop with some stats and waits in result <- s
MergeInit ==
    /\ f \in [parallel : MergeParallels, rampup : {0}, rate : {0},
              live : {FALSE}]
    /\ done = TRUE
    /\ wpc = [w \in Workers |-> "result"]
    /\ s \in [Workers -> WorkerStats]
    /\ live = [w \in Workers |-> [req |-> s[w].req, bytes |-> s[w].bytes]]
    /\ resp = [w \in Workers |-> "none"]
    /\ rampch = "closed"
    /\ rgpc = "exit"
    /\ rn = f.parallel
    /\ ri = 0
    /\ groupCnt = 0
    /\ rticks = 0
    /\ tickch = "nil"
    /\ rtpc = "none"
    /\ ticks = 0
    /\ errors = "open"
    /\ erpc = "drain"
    /\ livech = << >>
    /\ livest = "nil"
    /\ lupc = "none"
    /\ mainpc = "collect"
    /\ total = newStats
    /\ got = << >>
    /\ handed = [w \in Workers |-> newStats]
    /\ inflight = {}
    /\ sent = [w \in Workers |-> newLive]
    /\ t1 = f.parallel + 1
    /\ now = t1 + 1
    /\ delta = 1
    /\ tlast = 0
    /\ rh = rhIdle
    /\ sc = scIdle
    /\ panicked = "none"

\* collectStats lines 319-331: the N receives, in any order of the senders
MergeNext == \E w \in Workers : Collect(w)

MergeSpec == MergeInit /\ [][MergeNext]_vars

\* --------------------------------------------- reportHistogram on its own
\* total.hist[m] of a bucket that exists
HistCounts == {1, 2, 5, 10}

\* total.hist: a map with at least one key (line 404), every count positive
HistMaps ==
    UNION {[D -> HistCounts] : D \in (SUBSET (0..MaxMs)) \ {{}}}

\* line 424
want == <<10, 25, 50, 75, 90, 95, 99>>

\* line 416: sort.Ints
RECURSIVE SortInts(_)
SortInts(S) ==
    IF S = {} THEN << >>
    ELSE LET x == CHOOSE x \in S : \A y \in S : x <= y
         IN <<x>> \o SortInts(S \ {x})

\* lines 408-416: the keys of total.hist, ascending
Milis == SortInts(DOMAIN total.hist)

\* a faulty Advance: percentile > want[i] in place of >=
RECURSIVE AdvanceStrict(_, _)
AdvanceStrict(i, percentile) ==
    IF i < Len(want) /\ percentile > want[i + 1]
    THEN AdvanceStrict(i + 1, percentile)
    ELSE i - 1

\* a faulty Advance: an if in place of the for, one target per bucket
AdvanceOne(i, percentile) ==
    IF i < Len(want) /\ percentile >= want[i + 1] THEN i ELSE i - 1

\* lines 431-435: for i < len(want) && percentile >= want[i] { i++ }, then
\* i--; want[i] of the code is want[i + 1] here
RECURSIVE Advance(_, _)
Advance(i, percentile) ==
    IF i < Len(want) /\ percentile >= want[i + 1]
    THEN Advance(i + 1, percentile)
    ELSE i - 1

\* a faulty Annotate: next = i in place of next = i + 1
AnnotateKeepNext(next, i) ==
    IF i >= next THEN [s2 |-> want[i + 1], next |-> i]
    ELSE [s2 |-> 0, next |-> next]

\* lines 436-439: if i >= next { s2 = "(want[i]%)"; next = i + 1 }
Annotate(next, i) ==
    IF i >= next THEN [s2 |-> want[i + 1], next |-> i + 1]
    ELSE [s2 |-> 0, next |-> next]

\* main inside reportStats (line 660): done is closed, the one worker has
\* returned and total is its stats, every request answered 200 with one byte
\* and counted in the histogram h
Reporting(h) ==
    /\ f = [parallel |-> 1, rampup |-> 0, rate |-> 0, live |-> FALSE]
    /\ total = [req |-> Sum(h), err |-> 0, rerr |-> 0, bytes |-> Sum(h),
                code |-> [c \in Codes |-> IF c = 200 THEN Sum(h) ELSE 0],
                hist |-> h]
    /\ done = TRUE
    /\ wpc = [w \in Workers |-> "exit"]
    /\ s = [w \in Workers |-> total]
    /\ live = [w \in Workers |-> [req |-> total.req, bytes |-> total.bytes]]
    /\ resp = [w \in Workers |-> "none"]
    /\ rampch = "closed"
    /\ rgpc = "exit"
    /\ rn = f.parallel
    /\ ri = 0
    /\ groupCnt = 0
    /\ rticks = 0
    /\ tickch = "nil"
    /\ rtpc = "none"
    /\ ticks = 0
    /\ errors = "open"
    /\ erpc = "drain"
    /\ livech = << >>
    /\ livest = "nil"
    /\ lupc = "none"
    /\ mainpc = "report"
    /\ got = <<1>>
    /\ handed = s
    /\ inflight = {}
    /\ sent = [w \in Workers |-> newLive]
    /\ t1 = f.parallel + 1
    /\ now = t1 + 2
    /\ delta = 1
    /\ tlast = now
    /\ panicked = "none"

\* lines 423-426 at the call of line 474
HistInit ==
    /\ \E h \in HistMaps : Reporting(h)
    /\ rh = rhIdle
    /\ sc = scIdle

\* lines 428-450: one iteration of for _, m := range milis
HistBucket ==
    /\ Running
    /\ mainpc = "report"
    /\ rh.k < Len(Milis)
    /\ LET m == Milis[rh.k + 1]
           pending == rh.next < Len(want)
           sum == IF pending THEN rh.sum + total.hist[m] ELSE rh.sum
           percentile == (sum * 100) \div total.req
           a == IF pending
                THEN Annotate(rh.next, Advance(rh.next, percentile))
                ELSE [s2 |-> 0, next |-> rh.next]
       IN rh' = [k |-> rh.k + 1, sum |-> sum, next |-> a.next,
                 ann |-> Append(rh.ann, a.s2)]
    /\ UNCHANGED <<f, done, wpc, s, live, resp, rampVars, rateVars, errVars,
                   liveVars, mainpc, total, got, handed, inflight, clockVars,
                   sc, panicked>>

HistNext == HistBucket

HistSpec == HistInit /\ [][HistNext]_vars

\* ------------------------------------ the unit scaling loops on their own
\* lines 337, 354, 370: units
Units(fn) ==
    CASE fn = "reportSize" -> <<"B", "kB", "MB", "GB", "TB", "PB">>
      [] fn = "reportThroughput" ->
             <<"B/s", "kB/s", "MB/s", "GB/s", "TB/s", "PB/s">>
      [] fn = "reportBandwidth" -> <<"bps", "kbps", "Mbps", "Gbps">>

\* lines 343, 360, 376: the constant m is compared with and divided by
Base(fn) == IF fn = "reportBandwidth" THEN 1000 ELSE 1024

\* a float64 m >= 0 by the digits of its integer part in base b, lowest digit
\* first, no leading zero (the empty sequence for m < 1); what follows the
\* point plays no part in m < b
Nums(b, len) ==
    {q \in UNION {[1..d -> {0, 1, b - 1}] : d \in 0..len} :
        Len(q) > 0 => q[Len(q)] # 0}

\* lines 340, 357, 373: m before the loop.  reportSize gets float64(n) of an
\* int64 n >= 0, below 8 * 1024^6; the other two divide by duration.Seconds(),
\* which can be as small as 1e-9; 8*n of reportBandwidth is an int64 product
\* and can have wrapped below zero.
ScaleInputs ==
    {[fn |-> "reportSize", m |-> q, neg |-> FALSE, i |-> 0, pc |-> "loop"] :
        q \in {r \in Nums(1024, Min(MaxDigits, Int64Digits)) :
                  Len(r) = Int64Digits => r[Len(r)] < 8}}
    \cup
    {[fn |-> "reportThroughput", m |-> q, neg |-> FALSE, i |-> 0,
      pc |-> "loop"] : q \in Nums(1024, MaxDigits)}
    \cup
    {[fn |-> "reportBandwidth", m |-> q, neg |-> n, i |-> 0, pc |-> "loop"] :
        q \in Nums(1000, MaxDigits), n \in BOOLEAN}

\* lines 460-463: reportStats calls one of the three functions
ScaleInit ==
    /\ Reporting([m \in {0} |-> 1])
    /\ rh = rhIdle
    /\ sc \in ScaleInputs

\* lines 342-348, 359-365, 375-381: one evaluation of i < len(units) and, if
\* it holds, the loop body: break on m < base, else m /= base and i++
ScaleStep ==
    /\ Running
    /\ sc.pc = "loop"
    /\ sc' = IF sc.i < Len(Units(sc.fn))
             THEN IF sc.neg \/ Len(sc.m) <= 1
                  THEN [sc EXCEPT !.pc = "format"]
                  ELSE [sc EXCEPT !.m = Tail(sc.m), !.i = sc.i + 1]
             ELSE [sc EXCEPT !.pc = "format"]
    /\ UNCHANGED <<f, done, wpc, s, live, resp, rampVars, rateVars, errVars,
                   liveVars, mainpc, total, got, handed, inflight, clockVars,
                   rh, panicked>>

\* lines 350, 366, 382: units[i]; an index out of range panics
ScaleFormat ==
    /\ Running
    /\ sc.pc = "format"
    /\ IF sc.i < Len(Units(sc.fn))
       THEN sc' = [sc EXCEPT !.pc = "done"] /\ panicked' = panicked
       ELSE sc' = [sc EXCEPT !.pc = "panic"] /\ panicked' = "main"
    /\ UNCHANGED <<f, done, wpc, s, live, resp, rampVars, rateVars, errVars,
                   liveVars, mainpc, total, got, handed, inflight, clockVars,
                   rh>>

ScaleNext == ScaleStep \/ ScaleFormat

ScaleSpec == ScaleInit /\ [][ScaleNext]_vars

\* ================================================================== claims
\* the workers whose stats main has received
Received == {got[i] : i \in 1..Len(got)}

\* a worker is between two loop iterations, or past the loop
AtBoundary(w) == wpc[w] \in {"tick", "check", "result", "exit"}

\* C2: every worker puts its stats on result exactly once, after it has left
\* its loop, and its stats never change afterwards; main receives one message
\* from each worker, never two from the same worker, N in all.
C2_SingleHandoff ==
    /\ Len(got) <= f.parallel
    /\ \A i, j \in 1..Len(got) : i # j => got[i] # got[j]
    /\ \A w \in Workers : (w \in Received) <=> (wpc[w] = "exit")
    /\ \A w \in Received : s[w] = handed[w]
    /\ mainpc \notin {"select", "collect"} => Received = Workers

C2_Witness ==
    /\ f.parallel = 2
    /\ Len(got) = 2
    /\ \E w \in Workers : s[w].req > 0 /\ s[w] = handed[w]

\* C3: errors and livech are closed only after all N stats have been
\* received, so no worker is sending, or still has to send, on a closed channel.
C3_CloseAfterCollect ==
    (errors = "closed" \/ livest = "closed") =>
        /\ Len(got) = f.parallel
        /\ \A w \in Workers : wpc[w] = "exit"

C3_Witness ==
    /\ errors = "closed"
    /\ livest = "closed"
    /\ \E w \in Workers : s[w].err + s[w].rerr > 0

\* C4: whenever the interrupt or the deadline fires, the N stats are
\* collected and reportStats runs to completion: it never fails.
C4_ReportCompletes == panicked # "main"

\* C5: at every loop-iteration boundary and at hand-off, requests >=
\* connErrors and the histogram's bucket counts add up to requests - connErrors.
C5_HistogramCount ==
    \A w \in Workers :
        AtBoundary(w) =>
            /\ s[w].req >= s[w].err
            /\ Sum(s[w].hist) = s[w].req - s[w].err

\* C6: at every loop-iteration boundary and at hand-off, the status-code
\* counts add up to requests - connErrors, and readErrors is at most that sum.
C6_StatusCount ==
    \A w \in Workers :
        AtBoundary(w) =>
            /\ Sum(s[w].code) = s[w].req - s[w].err
            /\ s[w].rerr <= Sum(s[w].code)

C6_Witness ==
    \E w \in Workers :
        /\ wpc[w] = "exit"
        /\ s[w].rerr = 1
        /\ s[w].code[500] = 1

\* C8: with the rate limiter on, the requests dispatched by all workers
\* together never exceed the ticks delivered on tickch; a receive from the
\* closed tickch dispatches nothing.
C8_RateBound == tickch # "nil" => TotalReq <= ticks

C8_Witness ==
    /\ tickch = "closed"
    /\ TotalReq = 1
    /\ \A w \in Workers : wpc[w] = "exit"

\* C10: window 0 releases every worker at once; for a window T > 0 and while
\* done is open, the generator does not fail and every worker is released
\* within T/100ms ticks.
C10_RampupTiming ==
    /\ panicked # "rampupGenerator"
    /\ (f.rampup = 0 /\ rgpc = "exit") => rampch = "closed"
    /\ (f.rampup > 0 /\ ~done /\ rticks > f.rampup \div RampTickMs) =>
           \A w \in Workers : wpc[w] # "ramp"

\* C1: under fair scheduling, once done is closed every worker hands off its
\* stats and returns, and main's collection of the N stats completes.
C1_ShutdownLiveness ==
    done ~> (/\ \A w \in Workers : wpc[w] = "exit"
             /\ Len(got) = f.parallel)

\* C7: done is examined only between iterations: a worker leaves its loop only
\* from the check of done; a request in flight when done is closed is completed
\* and recorded before the hand-off; and only a failed dispatch increments err,
\* only a failed read increments rerr.
C7_Handoff ==
    \A w \in Workers :
        (w \in inflight /\ wpc[w] = "result") =>
            /\ s[w].req >= 1
            /\ Sum(s[w].hist) = s[w].req
            /\ Sum(s[w].code) = s[w].req - s[w].err

C7_Step ==
    \A w \in Workers :
        /\ (wpc'[w] = "result" /\ wpc[w] # "result") =>
               (wpc[w] \in {"tick", "check"} /\ done)
        /\ s'[w].err # s[w].err => resp[w] = "err"
        /\ s'[w].rerr # s[w].rerr => resp[w] = "readerr"

C7_CooperativeStop == [](C7_Handoff) /\ [][C7_Step]_vars

C7_Witness ==
    \E w \in inflight :
        /\ wpc[w] = "result"
        /\ s[w].code[200] = 1
        /\ s[w].err = 0
        /\ s[w].rerr = 0

\* C9: under fair scheduling, once done is closed the rate ticker goroutine
\* returns (ticker stopped, tickch closed), and no worker stays in its wait for
\* a tick.  A run the process ends by a panic is not held against the ticker.
C9_LimiterTerminates ==
    /\ (done /\ rtpc # "none") ~> (rtpc = "exit" \/ ~Running)
    /\ \A w \in WorkerIds :
           (done /\ w \in Workers /\ wpc[w] = "tick") ~>
               (w \notin Workers \/ wpc[w] # "tick" \/ ~Running)

\* C11: a worker never returns to the ramp-up gate once it has passed it; and
\* under fair scheduling, once done is closed the ramp-up generator returns
\* and no worker stays blocked at the gate.
C11_PassOnce == \A w \in Workers : wpc'[w] = "ramp" => wpc[w] = "ramp"

C11_RampRelease ==
    /\ [][C11_PassOnce]_vars
    /\ done ~> (rgpc = "exit")
    /\ \A w \in WorkerIds :
           (done /\ w \in Workers /\ wpc[w] = "ramp") ~>
               (w \notin Workers \/ wpc[w] # "ramp")

\* C12: after any number of receives, in whatever order the workers' stats
\* arrived, every scalar counter of total and every per-status and per-bucket
\* count is the sum of that counter over the workers received so far.
FieldSum(field(_)) ==
    SumOver([w \in Workers |-> field(s[w])], Received)

C12_MergeSum ==
    /\ total.req = FieldSum(LAMBDA st : st.req)
    /\ total.err = FieldSum(LAMBDA st : st.err)
    /\ total.rerr = FieldSum(LAMBDA st : st.rerr)
    /\ total.bytes = FieldSum(LAMBDA st : st.bytes)
    /\ \A c \in Codes : total.code[c] = FieldSum(LAMBDA st : st.code[c])
    /\ \A m \in Buckets : total.hist[m] = FieldSum(LAMBDA st : st.hist[m])

C12_Witness ==
    /\ got = <<3, 1, 2>>
    /\ s[1] # s[2]
    /\ \A w \in Workers : s[w].code[500] > 0 /\ s[w].code[200] > 0
    /\ total.err > 0

\* C13, as the specification words it: t1 is taken no later than the first
\* go bench(...), and the interval t1 .. t1 + delta ends after the N-th stats
\* has been received.
C13_LaunchToLastStats ==
    /\ \A w \in Workers : t1 <= LaunchTime(w)
    /\ Len(got) = f.parallel => t1 + delta >= tlast

\* C13, as the code has it: t1 is taken after every go bench(...); delta is
\* not taken while done is open, and it is taken with close(done), so the
\* interval t1 .. t1 + delta ends before the first stats is received.
C13_ElapsedToStop ==
    /\ \A w \in Workers : LaunchTime(w) < t1
    /\ ~done => delta = 0
    /\ done => delta > 0
    /\ Len(got) > 0 => t1 + delta < tlast

C13_Witness ==
    /\ f.parallel = 2
    /\ Len(got) = 2
    /\ mainpc = "closeerrors"
    /\ t1 + delta < tlast

\* the targets, the requests in the first k buckets, and the greatest of a set
Targets == {want[j] : j \in 1..Len(want)}

Cum(k) == SumOver(total.hist, {Milis[j] : j \in 1..k})

MaxOf(S) == CHOOSE x \in S : \A y \in S : y <= x

\* C14: over the buckets in ascending order the annotations strictly
\* increase, so no target is printed on two buckets; every annotation is one
\* target of the list.
C14_Monotonic ==
    /\ \A i \in 1..Len(rh.ann) : rh.ann[i] \in Targets \cup {0}
    /\ \A i, j \in 1..Len(rh.ann) :
           (i < j /\ rh.ann[i] # 0 /\ rh.ann[j] # 0) => rh.ann[i] < rh.ann[j]

C14_Witness ==
    /\ rh.k = Len(Milis)
    /\ Cardinality({i \in 1..Len(rh.ann) : rh.ann[i] # 0}) >= 4
    /\ \E i \in 1..Len(rh.ann) : rh.ann[i] = 0
    /\ \E i \in 1..Len(rh.ann) : rh.ann[i] = 95

\* C15: with c = floor(100 * cumulative count / total requests), the bucket
\* just printed is annotated iff some pending target is <= c; the annotation
\* is the highest such target; that target and the lower pending ones are no
\* longer pending afterwards, the others still are.
C15_Rule ==
    rh' # rh =>
        LET k == rh'.k
            c == (100 * Cum(k)) \div total.req
            pending == {want[j] : j \in (rh.next + 1)..Len(want)}
            reach == {t \in pending : t <= c}
            left == {want[j] : j \in (rh'.next + 1)..Len(want)}
        IN /\ (rh'.ann[k] # 0) <=> (reach # {})
           /\ reach # {} => rh'.ann[k] = MaxOf(reach)
           /\ left = pending \ reach

C15_Attribution == [][C15_Rule]_vars

C15_Witness ==
    /\ rh.k = Len(Milis)
    /\ \E i \in 1..Len(rh.ann) : rh.ann[i] = 75
    /\ \A i \in 1..Len(rh.ann) : rh.ann[i] \notin {10, 25, 50}
    /\ \E i \in 1..Len(rh.ann) : rh.ann[i] = 0

\* the first bucket at which the cumulative fraction of total.req reaches t%
FirstReach(t) ==
    CHOOSE k \in 1..Len(Milis) :
        /\ Cum(k) * 100 >= t * total.req
        /\ \A j \in 1..(k - 1) : Cum(j) * 100 < t * total.req

\* C16, as the specification words it: when the histogram is printed, every
\* target is the annotation of exactly one bucket, the first bucket at which
\* the cumulative fraction reaches it.
C16_EachTargetOnce ==
    rh.k = Len(Milis) =>
        \A t \in Targets :
            /\ rh.ann[FirstReach(t)] = t
            /\ \A i \in 1..Len(rh.ann) : rh.ann[i] = t => i = FirstReach(t)

\* C16, as the code has it: every target is used up at the first bucket at
\* which the cumulative fraction reaches it; a printed bucket shows the
\* highest of the targets first reached there and nothing when there is none;
\* no target is left when the last bucket is printed.
C16_ConsumedAtFirstReach ==
    /\ \A k \in 1..rh.k :
           LET here == {t \in Targets : FirstReach(t) = k}
           IN rh.ann[k] = IF here = {} THEN 0 ELSE MaxOf(here)
    /\ rh.k = Len(Milis) => rh.next = Len(want)

C16_Witness ==
    /\ rh.k = Len(Milis)
    /\ Len(Milis) >= 3
    /\ FirstReach(25) = FirstReach(50)
    /\ rh.ann[FirstReach(50)] = 50
    /\ FirstReach(90) # FirstReach(99)

\* C17: a failed dispatch or a failed read is counted once as a request and,
\* with the one send on errors, once in the matching error counter; the worker
\* then goes on to its next iteration, without a retry; a worker leaves its
\* loop only from the check of done; and done is closed only by main's select,
\* whatever errors there were.
C17_Counted ==
    \A w \in Workers :
        /\ s[w].err + s[w].rerr <= s[w].req
        /\ wpc[w] = "errsend" =>
               /\ resp[w] \in {"err", "readerr"}
               /\ s[w].req = Sum(s[w].hist) + 1

C17_Step ==
    /\ \A w \in Workers :
           /\ (wpc'[w] = "errsend" /\ wpc[w] # "errsend") =>
                  /\ wpc[w] = "do"
                  /\ s'[w].req = s[w].req
           /\ (wpc[w] = "errsend" /\ wpc'[w] # "errsend") =>
                  /\ s'[w].req = s[w].req
                  /\ s'[w].err = s[w].err + (IF resp[w] = "err" THEN 1 ELSE 0)
                  /\ s'[w].rerr =
                         s[w].rerr + (IF resp[w] = "readerr" THEN 1 ELSE 0)
                  /\ wpc'[w] \in {"tick", "check", "livesend"}
           /\ (s'[w].err # s[w].err \/ s'[w].rerr # s[w].rerr) =>
                  wpc[w] = "errsend"
           /\ (wpc'[w] = "result" /\ wpc[w] # "result") =>
                  (wpc[w] \in {"tick", "check"} /\ done)
    /\ done' # done => (mainpc = "select" /\ s' = s /\ wpc' = wpc)

C17_LocalErrors == [](C17_Counted) /\ [][C17_Step]_vars

C17_Witness ==
    /\ ~done
    /\ \E w \in Workers :
           /\ s[w].err = 1
           /\ s[w].req = 1
           /\ wpc[w] \in {"tick", "check"}

\* C18: in no interleaving does the select of the error reporter receive the
\* nil error from the closed errors channel, on which err.Error() fails.
C18_NoClosedReceive == panicked # "errorReporter"

\* C19: for every worker between two iterations (a snapshot that is due
\* counts as not sent yet) and after its loop, the requests of all snapshots
\* it has sent plus its local live.req equal s.req, and the same for bytes.
C19_LiveConservation ==
    \A w \in Workers :
        (AtBoundary(w) \/ wpc[w] = "livesend") =>
            /\ sent[w].req + live[w].req = s[w].req
            /\ sent[w].bytes + live[w].bytes = s[w].bytes

C19_Witness ==
    \E w \in Workers :
        /\ AtBoundary(w)
        /\ sent[w] = [req |-> 1, bytes |-> 1]
        /\ live[w] = newLive
        /\ Len(livech) > 0

\* C20: for every byte count n >= 0 and every positive duration, the three
\* scaling loops end with an index i that is valid for units, and units[i]
\* does not fail.
C20_UnitIndexValid ==
    /\ sc.pc \in {"format", "done"} => sc.i < Len(Units(sc.fn))
    /\ sc.pc # "panic"

====
